---- MODULE Spec2Model ----
(***************************************************************************)
(* OTLP log viewer: the normalizer (fetchLogs), the histogram builder      *)
(* (LogHistogram's histogramData) and the page (Home / loadLogs).          *)
(*                                                                         *)
(* JavaScript values are tagged tuples: <<"undefined">>, <<"null">>,       *)
(* <<"string", s>>, <<"number", n>>, <<"boolean", b>>, <<"array", seq>>,   *)
(* <<"object", record>>, <<"bytes", seq>>, <<"NaN">>.  A numeric string    *)
(* (timeUnixNano) is a sequence of decimal digits, so that toString() and  *)
(* Number() are computed rather than assumed to be inverse.                *)
(*                                                                         *)
(* Time is counted in ticks of 1_000_000 ns: TLC's integers are 32 bits    *)
(* wide and 10_000_000_000 ns does not fit.  NanosPerSecond is the         *)
(* program's 1_000_000_000 in that unit.                                   *)
(***************************************************************************)
EXTENDS Integers, Sequences, FiniteSets, TLC

VARIABLES
    logs,           \* Home: useState<LogEntry[]>([])
    loading,        \* Home: useState(true)
    error,          \* Home: useState<string | null>(null)
    mounted,        \* whether the mount effect (useEffect(..., [])) has run
    inFlight,       \* number of loadLogs calls awaiting fetchLogs()
    lastFetch,      \* history: how the fetch of the latest loadLogs call ended
                    \* ("pending" until it has), and the number of LogRecord
                    \* objects in the data it delivered
    response,       \* history: response.data of the latest loadLogs call, once
                    \* axios has delivered it
    histogramData   \* LogHistogram: the memoized buckets, when it is rendered

vars == <<logs, loading, error, mounted, inFlight, lastFetch, response, histogramData>>

----------------------------------------------------------------------------
(* JavaScript values *)

Undefined == <<"undefined">>
Null == <<"null">>
NaN == <<"NaN">>
Str(s) == <<"string", s>>
Num(n) == <<"number", n>>
Bool(b) == <<"boolean", b>>
Arr(s) == <<"array", s>>
Obj(o) == <<"object", o>>
Bytes(s) == <<"bytes", s>>

Tag(v) == v[1]
Val(v) == v[2]

IsNullish(v) == Tag(v) \in {"undefined", "null"}
IsArray(v) == Tag(v) = "array"

\* ToBoolean of a value whose strings are ordinary text
Truthy(v) ==
    CASE Tag(v) \in {"undefined", "null", "NaN"} -> FALSE
      [] Tag(v) = "string" -> Val(v) # ""
      [] Tag(v) = "number" -> Val(v) # 0
      [] Tag(v) = "boolean" -> Val(v)
      [] OTHER -> TRUE

\* ToBoolean of a timeUnixNano: a number, or a string of decimal digits
TruthyTime(v) ==
    CASE Tag(v) \in {"undefined", "null", "NaN"} -> FALSE
      [] Tag(v) = "string" -> Val(v) # <<>>
      [] Tag(v) = "number" -> Val(v) # 0
      [] OTHER -> TRUE

Min(a, b) == IF a <= b THEN a ELSE b
Max(a, b) == IF a >= b THEN a ELSE b

RECURSIVE DecimalDigits(_)
\* Number.prototype.toString() of a non-negative integer
DecimalDigits(n) ==
    IF n < 10 THEN <<n>> ELSE Append(DecimalDigits(n \div 10), n % 10)

RECURSIVE ParseDecimal(_)
\* Number(s) of a string of decimal digits ("" parses to 0)
ParseDecimal(d) ==
    IF d = <<>> THEN 0
    ELSE 10 * ParseDecimal(SubSeq(d, 1, Len(d) - 1)) + d[Len(d)]

\* logRecord.timeUnixNano.toString(): undefined and null have no toString
CanToString(v) == ~IsNullish(v)
ToStringTime(v) ==
    IF Tag(v) = "number" THEN Str(DecimalDigits(Val(v))) ELSE v

\* Number(x) of a timeUnixNano
NumberOfTime(v) ==
    IF Tag(v) = "number" THEN Val(v) ELSE ParseDecimal(Val(v))

\* a.timeUnixNano ? Number(a.timeUnixNano) : 0
ParsedTime(entry) ==
    IF TruthyTime(entry.timeUnixNano) THEN NumberOfTime(entry.timeUnixNano) ELSE 0

----------------------------------------------------------------------------
(* types/otlp *)

\* the extraction with each variant tested for truthiness instead
extractAnyValueTruthy(value) ==
    IF ~Truthy(value) THEN Null
    ELSE LET v == Val(value) IN
         IF Truthy(v.stringValue) THEN v.stringValue
         ELSE IF Truthy(v.intValue) THEN v.intValue
         ELSE IF Truthy(v.doubleValue) THEN v.doubleValue
         ELSE IF Truthy(v.boolValue) THEN v.boolValue
         ELSE Null

extractAnyValue(value) ==
    IF ~Truthy(value) THEN Null
    ELSE LET v == Val(value) IN
         IF ~IsNullish(v.stringValue) THEN v.stringValue
         ELSE IF ~IsNullish(v.intValue) THEN v.intValue
         ELSE IF ~IsNullish(v.doubleValue) THEN v.doubleValue
         ELSE IF ~IsNullish(v.boolValue) THEN v.boolValue
         ELSE Null

extractStringValue(value) ==
    IF ~Truthy(value) \/ IsNullish(Val(value).stringValue) THEN Str("")
    ELSE Val(value).stringValue

----------------------------------------------------------------------------
(* services/logService: fetchLogs *)

AttrKeys == {"k", "m", "scope.name", "scope.version"}

\* const resourceAttributes: Record<string, AttributeValue> = {}
EmptyAttributes == [k \in AttrKeys |-> Undefined]

RECURSIVE ForEachAttribute(_, _)
\* attrs.forEach(attr => { if (attr.key) map[attr.key] = extractAnyValue(attr.value) })
ForEachAttribute(map, attrs) ==
    IF attrs = <<>> THEN map
    ELSE LET attr == Head(attrs) IN
         ForEachAttribute(
            IF Truthy(attr.key)
            THEN [map EXCEPT ![Val(attr.key)] = extractAnyValue(attr.value)]
            ELSE map,
            Tail(attrs))

\* x?.attributes of an optional resource / scope
OptionalAttributes(owner) ==
    IF IsNullish(owner) THEN Undefined ELSE Val(owner).attributes

\* x?.name, x?.version of an optional scope
OptionalField(owner, f) ==
    IF IsNullish(owner) THEN Undefined ELSE Val(owner)[f]

ResourceAttributes(resourceLog) ==
    LET attributes == OptionalAttributes(resourceLog.resource) IN
    IF Truthy(attributes) /\ IsArray(attributes)
    THEN ForEachAttribute(EmptyAttributes, Val(attributes))
    ELSE EmptyAttributes

\* the scope's map with scope.name and scope.version written before the
\* attribute list instead of after it
ScopeAttributesMetadataFirst(scopeLog) ==
    LET attributes == OptionalAttributes(scopeLog.scope)
        name == OptionalField(scopeLog.scope, "name")
        version == OptionalField(scopeLog.scope, "version")
        named == IF Truthy(name) THEN [EmptyAttributes EXCEPT !["scope.name"] = name]
                 ELSE EmptyAttributes
        versioned == IF Truthy(version) THEN [named EXCEPT !["scope.version"] = version]
                     ELSE named
    IN  IF Truthy(attributes) /\ IsArray(attributes)
        THEN ForEachAttribute(versioned, Val(attributes))
        ELSE versioned

ScopeAttributes(scopeLog) ==
    LET attributes == OptionalAttributes(scopeLog.scope)
        name == OptionalField(scopeLog.scope, "name")
        version == OptionalField(scopeLog.scope, "version")
        own == IF Truthy(attributes) /\ IsArray(attributes)
               THEN ForEachAttribute(EmptyAttributes, Val(attributes))
               ELSE EmptyAttributes
        named == IF Truthy(name) THEN [own EXCEPT !["scope.name"] = name] ELSE own
    IN  IF Truthy(version) THEN [named EXCEPT !["scope.version"] = version] ELSE named

HexDigits == <<"0", "1", "2", "3", "4", "5", "6", "7",
               "8", "9", "a", "b", "c", "d", "e", "f">>

RECURSIVE HexEncodeNoPadding(_)
\* each byte in hexadecimal without its leading zero
HexEncodeNoPadding(bytes) ==
    IF bytes = <<>> THEN <<>>
    ELSE (IF Head(bytes) < 16 THEN <<>> ELSE <<HexDigits[(Head(bytes) \div 16) + 1]>>)
         \o <<HexDigits[(Head(bytes) % 16) + 1]>>
         \o HexEncodeNoPadding(Tail(bytes))

RECURSIVE HexEncode(_)
\* Buffer.from(bytes).toString('hex'), as the sequence of its characters
HexEncode(bytes) ==
    IF bytes = <<>> THEN <<>>
    ELSE <<HexDigits[(Head(bytes) \div 16) + 1], HexDigits[(Head(bytes) % 16) + 1]>>
         \o HexEncode(Tail(bytes))

\* typeof id === 'string' ? id : id ? Buffer.from(id).toString('hex') : undefined
IdToString(id) ==
    IF Tag(id) = "string" THEN id
    ELSE IF Truthy(id) THEN Str(HexEncode(Val(id)))
    ELSE Undefined

LogRecordAttributes(logRecord) ==
    IF Truthy(logRecord.attributes) /\ IsArray(logRecord.attributes)
    THEN ForEachAttribute(EmptyAttributes, Val(logRecord.attributes))
    ELSE EmptyAttributes

\* the LogEntry whose record attributes were written to the scope's map instead
NewLogEntryAttributesIntoScope(logRecord, resourceAttributes, scopeAttributes) ==
    [ timeUnixNano |-> ToStringTime(logRecord.timeUnixNano),
      severityNumber |-> logRecord.severityNumber,
      body |-> extractStringValue(logRecord.body),
      attributes |-> EmptyAttributes,
      traceId |-> IdToString(logRecord.traceId),
      spanId |-> IdToString(logRecord.spanId),
      resourceAttributes |-> resourceAttributes,
      scopeAttributes |->
        IF Truthy(logRecord.attributes) /\ IsArray(logRecord.attributes)
        THEN ForEachAttribute(scopeAttributes, Val(logRecord.attributes))
        ELSE scopeAttributes ]

\* the LogEntry built from one LogRecord (timeUnixNano is known to have toString)
NewLogEntry(logRecord, resourceAttributes, scopeAttributes) ==
    [ timeUnixNano |-> ToStringTime(logRecord.timeUnixNano),
      severityNumber |-> logRecord.severityNumber,
      body |-> extractStringValue(logRecord.body),
      attributes |-> LogRecordAttributes(logRecord),
      traceId |-> IdToString(logRecord.traceId),
      spanId |-> IdToString(logRecord.spanId),
      resourceAttributes |-> resourceAttributes,
      scopeAttributes |-> scopeAttributes ]

\* acc: [threw: the callback raised a TypeError, logRecords: the entries pushed]
RECURSIVE ForEachLogRecord(_, _, _, _)
ForEachLogRecord(records, resourceAttributes, scopeAttributes, acc) ==
    IF records = <<>> \/ acc.threw THEN acc
    ELSE LET logRecord == Head(records) IN
         ForEachLogRecord(Tail(records), resourceAttributes, scopeAttributes,
            IF CanToString(logRecord.timeUnixNano)
            THEN [acc EXCEPT !.logRecords =
                    Append(@, NewLogEntry(logRecord, resourceAttributes, scopeAttributes))]
            ELSE [acc EXCEPT !.threw = TRUE])

RECURSIVE ForEachScopeLog(_, _, _)
ForEachScopeLog(scopeLogs, resourceAttributes, acc) ==
    IF scopeLogs = <<>> \/ acc.threw THEN acc
    ELSE LET scopeLog == Head(scopeLogs) IN
         ForEachScopeLog(Tail(scopeLogs), resourceAttributes,
            IF Truthy(scopeLog.logRecords) /\ IsArray(scopeLog.logRecords)
            THEN ForEachLogRecord(Val(scopeLog.logRecords), resourceAttributes,
                                  ScopeAttributes(scopeLog), acc)
            ELSE acc)

RECURSIVE ForEachResourceLog(_, _)
ForEachResourceLog(resourceLogs, acc) ==
    IF resourceLogs = <<>> \/ acc.threw THEN acc
    ELSE LET resourceLog == Head(resourceLogs) IN
         ForEachResourceLog(Tail(resourceLogs),
            IF Truthy(resourceLog.scopeLogs) /\ IsArray(resourceLog.scopeLogs)
            THEN ForEachScopeLog(Val(resourceLog.scopeLogs),
                                 ResourceAttributes(resourceLog), acc)
            ELSE acc)

\* the flattening: the entries in traversal order, or threw
Flatten(data) ==
    LET start == [threw |-> FALSE, logRecords |-> <<>>] IN
    IF Truthy(data.resourceLogs) /\ IsArray(data.resourceLogs)
    THEN ForEachResourceLog(Val(data.resourceLogs), start)
    ELSE start

\* the comparator with its operands exchanged: oldest first
CompareNewestFirstExchanged(a, b) == ParsedTime(a) - ParsedTime(b)

\* (a, b) => timeB - timeA
CompareNewestFirst(a, b) == ParsedTime(b) - ParsedTime(a)

\* a sort that is not stable: equal elements come out in reverse
ArraySortTiesReversed(s, cmp) ==
    LET before(i) == {j \in DOMAIN s :
                        \/ cmp[j, i] < 0
                        \/ cmp[j, i] = 0 /\ j > i}
        place == [i \in DOMAIN s |-> Cardinality(before(i)) + 1]
    IN  [k \in DOMAIN s |-> s[CHOOSE i \in DOMAIN s : place[i] = k]]

\* Array.prototype.sort(cmp), a stable sort, cmp[i, j] being the comparator's
\* result on s[i] and s[j]: the element at s[i] comes after the elements that
\* compare before it and after the equal ones that precede it in s
ArraySort(s, cmp) ==
    LET before(i) == {j \in DOMAIN s :
                        \/ cmp[j, i] < 0
                        \/ cmp[j, i] = 0 /\ j < i}
        place == [i \in DOMAIN s |-> Cardinality(before(i)) + 1]
    IN  [k \in DOMAIN s |-> s[CHOOSE i \in DOMAIN s : place[i] = k]]

SortNewestFirst(entries) ==
    ArraySort(entries, [i \in DOMAIN entries, j \in DOMAIN entries |->
                            CompareNewestFirst(entries[i], entries[j])])

\* fetchLogs() once axios has delivered data: the promise's settlement
fetchLogs(data) ==
    LET acc == Flatten(data) IN
    IF acc.threw THEN [rejected |-> TRUE, value |-> <<>>]
    ELSE [rejected |-> FALSE, value |-> SortNewestFirst(acc.logRecords)]

----------------------------------------------------------------------------
(* components/LogHistogram: histogramData *)

\* 1_000_000_000, in ticks of 1_000_000 ns
NanosPerSecond == 1000
SecondsPerBucket == 5
MinBuckets == 10
MaxBuckets == 20

\* (a, b) => timeA - timeB
CompareOldestFirst(a, b) == ParsedTime(a) - ParsedTime(b)

SortOldestFirst(entries) ==
    ArraySort(entries, [i \in DOMAIN entries, j \in DOMAIN entries |->
                            CompareOldestFirst(entries[i], entries[j])])

\* sortedLogs[0] and sortedLogs[length - 1], parsed (entries is not empty)
MinTime(entries) == ParsedTime(SortOldestFirst(entries)[1])
MaxTime(entries) == ParsedTime(SortOldestFirst(entries)[Len(entries)])

\* Math.ceil(a / b) for a >= 0, b > 0
CeilDiv(a, b) == (a + b - 1) \div b

\* the bucket count without its upper clamp
NumBucketsNoUpperClamp(timeRangeNanos) ==
    Max(MinBuckets, CeilDiv(timeRangeNanos, SecondsPerBucket * NanosPerSecond))

\* Math.min(Math.max(10, Math.ceil(timeRangeSeconds / 5)), 20)
NumBuckets(timeRangeNanos) ==
    Min(Max(MinBuckets, CeilDiv(timeRangeNanos, SecondsPerBucket * NanosPerSecond)),
        MaxBuckets)

\* floor(log2(a / b)) for a, b > 0: the binary exponent of the quotient
RECURSIVE FloorLog2(_, _)
FloorLog2(a, b) ==
    IF a >= 2 * b THEN FloorLog2(a, 2 * b) + 1
    ELSE IF a < b THEN FloorLog2(2 * a, b) - 1
    ELSE 0

RECURSIVE Pow2(_)
Pow2(e) == IF e = 0 THEN 1 ELSE 2 * Pow2(e - 1)

\* 2^e modulo n
RECURSIVE Pow2Mod(_, _)
Pow2Mod(e, n) == IF e = 0 THEN 1 % n ELSE (2 * Pow2Mod(e - 1, n)) % n

\* bucketSizeNanos = timeRangeNanos / numBuckets is a binary64 number: the
\* quotient rounded to 53 significant bits, ties to even.  With
\* s = 52 - floor(log2(timeRangeNanos / numBuckets)) it is M / 2^s for the integer
\* M nearest to timeRangeNanos * 2^s / numBuckets.  This is the rounding error
\* numBuckets * M - timeRangeNanos * 2^s, found from the remainder of
\* timeRangeNanos * 2^s modulo numBuckets (and modulo 2 * numBuckets for the
\* parity of the quotient in a tie).
BucketSizeRoundOff(timeRangeNanos, numBuckets) ==
    LET s == 52 - FloorLog2(timeRangeNanos, numBuckets)
        r == ((timeRangeNanos % numBuckets) * Pow2Mod(s, numBuckets)) % numBuckets
        r2 == ((timeRangeNanos % (2 * numBuckets)) * Pow2Mod(s, 2 * numBuckets))
                % (2 * numBuckets)
    IN  IF 2 * r < numBuckets THEN 0 - r
        ELSE IF 2 * r > numBuckets THEN numBuckets - r
        ELSE IF r2 = r THEN 0 - r
        ELSE numBuckets - r

\* Math.floor(elapsed / bucketSizeNanos) for 0 <= elapsed <= timeRangeNanos, the
\* division being a binary64 one.  With m the floor of the exact quotient
\* elapsed * numBuckets / timeRangeNanos: when that quotient is no integer, the
\* rounding errors (below 2^-50 of the value) cannot move the result across an
\* integer, and it is m.  When it is the integer m > 0, elapsed / bucketSizeNanos
\* is m * timeRangeNanos * 2^s / (timeRangeNanos * 2^s + d), d the rounding error
\* of bucketSizeNanos; for d <= 0 that is at least m and the result is m, and for
\* d > 0 it lies below m and the division rounds it up to m only if it is within
\* half the spacing u of the binary64 numbers below m (u = 2^(e - 52), or
\* 2^(e - 53) for m = 2^e), else the result is m - 1.
FloorOfQuotient(elapsed, timeRangeNanos, numBuckets) ==
    LET m == (elapsed * numBuckets) \div timeRangeNanos
        exact == elapsed * numBuckets = m * timeRangeNanos
        d == BucketSizeRoundOff(timeRangeNanos, numBuckets)
        e == FloorLog2(m, 1)
        a == IF m = Pow2(e) THEN 54 - e ELSE 53 - e
        b == 52 - FloorLog2(timeRangeNanos, numBuckets)
        c == Min(a, b)
    IN  IF ~exact \/ m = 0 \/ d <= 0 THEN m
        ELSE IF m * d * Pow2(a - c) <= timeRangeNanos * Pow2(b - c) THEN m
        ELSE m - 1

\* the bucket index without the clamp to the last bucket
BucketIndexNoClamp(time, minTime, timeRangeNanos, numBuckets) ==
    IF timeRangeNanos = 0 THEN NaN
    ELSE Num(FloorOfQuotient(time - minTime, timeRangeNanos, numBuckets))

\* Math.min(Math.floor((time - minTime) / bucketSizeNanos), numBuckets - 1), where
\* bucketSizeNanos = timeRangeNanos / numBuckets.
\* With timeRangeNanos = 0 the division is by zero: 0 / 0 is NaN, and Math.floor
\* and Math.min pass NaN on; x / 0 is +Infinity or -Infinity by the sign of x.
BucketIndex(time, minTime, timeRangeNanos, numBuckets) ==
    IF timeRangeNanos = 0
    THEN IF time = minTime THEN NaN
         ELSE IF time > minTime THEN Num(numBuckets - 1)
         ELSE Num(-1)
    ELSE Num(Min(FloorOfQuotient(time - minTime, timeRangeNanos, numBuckets),
                 numBuckets - 1))

\* if (bucketIndex >= 0 && bucketIndex < buckets.length): false for NaN
IndexInRange(bucketIndex, length) ==
    Tag(bucketIndex) = "number" /\ Val(bucketIndex) >= 0 /\ Val(bucketIndex) < length

\* logs.forEach(log => { if (!log.timeUnixNano) return; ...;
\*   if (bucketIndex >= 0 && bucketIndex < buckets.length) buckets[bucketIndex].count++ })
\* whether the callback increments the count of bucket i (from 0) for log
CountsIn(log, i, minTime, timeRangeNanos, numBuckets) ==
    /\ TruthyTime(log.timeUnixNano)
    /\ LET bucketIndex == BucketIndex(NumberOfTime(log.timeUnixNano), minTime,
                                      timeRangeNanos, numBuckets)
       IN  IndexInRange(bucketIndex, numBuckets) /\ Val(bucketIndex) = i

\* the buckets' count fields after the forEach
CountLogs(entries, minTime, timeRangeNanos, numBuckets) ==
    [i \in 1..numBuckets |->
        Cardinality({j \in DOMAIN entries :
                        CountsIn(entries[j], i - 1, minTime, timeRangeNanos, numBuckets)})]

\* format(new Date(nanos / 1_000_000), 'HH:mm:ss') of the time num / den, as
\* <<hours, minutes, seconds>> of the day (in UTC)
formatTimestamp(num, den) ==
    LET s == (num \div (den * NanosPerSecond)) % 86400
    IN  <<s \div 3600, (s \div 60) % 60, s % 60>>

\* the buckets, in order: bucket i (from 0) starts at minTime + i * bucketSizeNanos
BuildBuckets(entries) ==
    LET minTime == MinTime(entries)
        timeRangeNanos == MaxTime(entries) - minTime
        numBuckets == NumBuckets(timeRangeNanos)
        counts == CountLogs(entries, minTime, timeRangeNanos, numBuckets)
    IN  [i \in 1..numBuckets |->
            [time |-> formatTimestamp(minTime * numBuckets + (i - 1) * timeRangeNanos,
                                      numBuckets),
             count |-> counts[i]]]

\* the builder without the check of the time anchors
HistogramDataNoAnchorCheck(entries) ==
    IF Len(entries) = 0 THEN <<>> ELSE BuildBuckets(entries)

\* useMemo(() => ..., [logs])
HistogramData(entries) ==
    IF Len(entries) = 0 THEN <<>>
    ELSE IF MinTime(entries) = 0 \/ MaxTime(entries) = 0 THEN <<>>
    ELSE BuildBuckets(entries)

----------------------------------------------------------------------------
(* app/page: Home *)

LoadFailedMessage == Str("Failed to load logs. Please try again later.")

\* the two conditional sections of the page
HistogramSection ==
    IF loading THEN "loading" ELSE IF Truthy(error) THEN "error" ELSE "data"

TableSection ==
    IF loading THEN "loading"
    ELSE IF Truthy(error) THEN "error"
    ELSE IF Len(logs) = 0 THEN "empty"
    ELSE "table"

\* <LogHistogram logs={logs} /> is rendered in the data state only
RenderedHistogram(isLoading, err, entries) ==
    IF isLoading \/ Truthy(err) THEN Undefined ELSE Arr(HistogramData(entries))

\* loadLogs up to its await: setLoading(true); setError(null); fetchLogs()
LoadLogsStart ==
    /\ loading' = TRUE
    /\ error' = Null
    /\ inFlight' = inFlight + 1
    /\ histogramData' = RenderedHistogram(loading', error', logs)
    /\ lastFetch' = [outcome |-> "pending", records |-> 0]
    /\ response' = Undefined
    /\ UNCHANGED logs

\* loadLogs after its await: try { setLogs } catch { setError } finally { setLoading }
LogsAfterLoad(result) ==
    IF result.rejected THEN logs ELSE result.value

\* the catch block without its setError
ErrorAfterLoadDropped(result) == error

ErrorAfterLoad(result) ==
    IF result.rejected THEN LoadFailedMessage ELSE error

\* loadLogs without its finally block
LoadingAfterLoadKept(result) == loading

LoadingAfterLoad(result) == FALSE

LoadLogsSettle(result, outcome, records, data) ==
    /\ logs' = LogsAfterLoad(result)
    /\ error' = ErrorAfterLoad(result)
    /\ loading' = LoadingAfterLoad(result)
    /\ inFlight' = inFlight - 1
    /\ histogramData' = RenderedHistogram(loading', error', logs')
    /\ lastFetch' = [outcome |-> outcome, records |-> records]
    /\ response' = data
    /\ UNCHANGED mounted

----------------------------------------------------------------------------
(* The payloads the endpoint may deliver *)

MaxRecords == 3

\* timeUnixNano of a LogRecord: absent, or a number or a numeric string
RecordTimes == {Undefined, Str(<<0>>), Num(5), Str(<<1, 2>>)}

StringValue(s) ==
    Obj([stringValue |-> Str(s), intValue |-> Undefined,
         doubleValue |-> Undefined, boolValue |-> Undefined])
IntValue(n) ==
    Obj([stringValue |-> Undefined, intValue |-> Num(n),
         doubleValue |-> Undefined, boolValue |-> Undefined])
BoolValue(b) ==
    Obj([stringValue |-> Undefined, intValue |-> Undefined,
         doubleValue |-> Undefined, boolValue |-> Bool(b)])

KeyValue(k, v) == [key |-> Str(k), value |-> v]

\* which optional parts a payload leaves out
Absences ==
    { {},
      {"resourceLogs", "scopeLogs", "logRecords"},
      {"resource", "scope"},
      {"resource.attributes", "scope.attributes", "attributes"},
      {"resourceLogs", "scopeLogs", "logRecords", "resource", "scope", "attributes"} }

\* payloads whose scopes list attributes under the keys 'scope.name' and
\* 'scope.version', with the scope's own name and version given or left out
Collisions ==
    { {"scope.collision"},
      {"scope.collision", "scope.name", "scope.version"} }

Shapes == Absences \cup Collisions

\* the i-th LogRecord of a payload, its body and its attribute naming its place
\* in the source
LogRecordAt(i, time, shape) ==
    [ timeUnixNano |-> time,
      severityNumber |-> Num(9),
      body |-> StringValue(HexDigits[i + 1]),
      attributes |-> IF "attributes" \in shape THEN Undefined
                     ELSE Arr(<<KeyValue("k", IntValue(i))>>),
      traceId |-> Undefined,
      spanId |-> Undefined ]

LogRecordsAt(times, from, to, shape) ==
    [j \in 1..(to - from + 1) |-> LogRecordAt(from + j - 1, times[from + j - 1], shape)]

ScopeLogsOf(name, records, shape) ==
    [ scope |-> IF "scope" \in shape THEN Undefined
                ELSE Obj([name |-> IF "scope.name" \in shape THEN Undefined
                                   ELSE Str(name),
                          version |-> IF "scope.version" \in shape THEN Undefined
                                      ELSE Str("1.0"),
                          attributes |->
                            IF "scope.attributes" \in shape THEN Undefined
                            ELSE IF "scope.collision" \in shape
                            THEN Arr(<<KeyValue("m", IntValue(7)),
                                       KeyValue("scope.name", StringValue("attr")),
                                       KeyValue("scope.version", StringValue("attr"))>>)
                            ELSE Arr(<<KeyValue("m", IntValue(7))>>)]),
      logRecords |-> IF records = <<>> /\ "logRecords" \in shape THEN Undefined
                     ELSE Arr(records) ]

ResourceLogsOf(service, scopeLogs, isEmpty, shape) ==
    [ resource |-> IF "resource" \in shape THEN Undefined
                   ELSE Obj([attributes |->
                                IF "resource.attributes" \in shape THEN Undefined
                                ELSE Arr(<<KeyValue("k", StringValue(service))>>)]),
      scopeLogs |-> IF isEmpty /\ "scopeLogs" \in shape THEN Undefined
                    ELSE Arr(scopeLogs) ]

\* two ResourceLogs: the first holds records 1..c1 in one scope and c1+1..c2 in
\* another, the second holds the rest in one scope
PayloadOf(times, cut1, cut2, shape) ==
    LET n == Len(times)
        c2 == Min(cut2, n)
        c1 == Min(cut1, c2)
    IN
    IF n = 0 /\ "resourceLogs" \in shape THEN [resourceLogs |-> Undefined]
    ELSE [resourceLogs |-> Arr(<<
            ResourceLogsOf("first",
                <<ScopeLogsOf("svc", LogRecordsAt(times, 1, c1, shape), shape),
                  ScopeLogsOf("lib", LogRecordsAt(times, c1 + 1, c2, shape), shape)>>,
                c2 = 0, shape),
            ResourceLogsOf("second",
                <<ScopeLogsOf("svc", LogRecordsAt(times, c2 + 1, n, shape), shape)>>,
                c2 = n, shape) >>)]

TimeSeqs(S, maxLen) == UNION {[1..n -> S] : n \in 0..maxLen}

\* a typed value with any of its variants populated, null or left out
AnyValues ==
    { Obj([stringValue |-> s, intValue |-> i, doubleValue |-> d, boolValue |-> b]) :
        s \in {Undefined, Null, Str(""), Str("s")},
        i \in {Undefined, Null, Num(0), Num(7)},
        d \in {Undefined, Null, Num(2)},
        b \in {Undefined, Null, Bool(FALSE), Bool(TRUE)} }
    \cup {Undefined, Null}

\* traceId / spanId of a LogRecord: left out, null, a string (a sequence of
\* characters) or a byte sequence
RecordIds ==
    { Undefined, Null,
      Str(<<"5", "b", "8", "e", "f", "f", "f", "7">>), Str(<<"A", "B", "C", "D">>),
      Bytes(<<171, 205>>), Bytes(<<0, 15, 255>>), Bytes(<<>>) }

\* a payload of one LogRecord with the attribute value and the ids given
SinglePayload(value, traceId, spanId) ==
    [resourceLogs |-> Arr(<<
        ResourceLogsOf("first",
            <<ScopeLogsOf("svc",
                <<[LogRecordAt(1, Num(5), {}) EXCEPT
                     !.attributes = Arr(<<KeyValue("m", value)>>),
                     !.traceId = traceId,
                     !.spanId = spanId]>>, {})>>,
            FALSE, {})>>)]

Payloads ==
    { PayloadOf(times, c[1], c[2], shape) :
        times \in TimeSeqs(RecordTimes, MaxRecords),
        c \in {d \in (0..MaxRecords) \X (0..MaxRecords) : d[1] <= d[2]},
        shape \in Shapes }
    \cup { SinglePayload(value, Undefined, Undefined) : value \in AnyValues }
    \cup { SinglePayload(IntValue(1), traceId, spanId) :
             traceId \in RecordIds, spanId \in RecordIds }

\* the LogRecord objects of a payload, counted over its arrays as they are
ArrayOrEmpty(v) == IF Tag(v) = "array" THEN Val(v) ELSE <<>>

RecordsOfScopeLog(scopeLog) == Len(ArrayOrEmpty(scopeLog.logRecords))

RECURSIVE RecordsOfScopeLogs(_)
RecordsOfScopeLogs(s) ==
    IF s = <<>> THEN 0 ELSE RecordsOfScopeLog(Head(s)) + RecordsOfScopeLogs(Tail(s))

RECURSIVE RecordsOfResourceLogs(_)
RecordsOfResourceLogs(s) ==
    IF s = <<>> THEN 0
    ELSE RecordsOfScopeLogs(ArrayOrEmpty(Head(s).scopeLogs)) + RecordsOfResourceLogs(Tail(s))

TotalRecords(data) == RecordsOfResourceLogs(ArrayOrEmpty(data.resourceLogs))

----------------------------------------------------------------------------
(* The page: Home with loadLogs, fetchLogs and LogHistogram *)

Init ==
    /\ logs = <<>>
    /\ loading = TRUE
    /\ error = Null
    /\ mounted = FALSE
    /\ inFlight = 0
    /\ lastFetch = [outcome |-> "none", records |-> 0]
    /\ response = Undefined
    /\ histogramData = Undefined

\* useEffect(() => { loadLogs(); }, [])
Mount ==
    /\ ~mounted
    /\ mounted' = TRUE
    /\ LoadLogsStart

\* a retry control that is there in every state of the mounted page
RetryInEveryState ==
    /\ mounted
    /\ LoadLogsStart
    /\ UNCHANGED mounted

\* the retry control of ErrorDisplay, which is there in the error state only
Retry ==
    /\ HistogramSection = "error" \/ TableSection = "error"
    /\ LoadLogsStart
    /\ UNCHANGED mounted

\* axios.get resolves with data; fetchLogs flattens and sorts it, or throws
AxiosResolves ==
    /\ inFlight > 0
    /\ \E data \in Payloads :
          LET result == fetchLogs(data) IN
          LoadLogsSettle(result, IF result.rejected THEN "threw" ELSE "resolved",
                         TotalRecords(data), Obj(data))

\* axios.get rejects (network error, non-2xx); fetchLogs rethrows
AxiosRejects ==
    /\ inFlight > 0
    /\ LoadLogsSettle([rejected |-> TRUE, value |-> <<>>], "transport", 0, Undefined)

Next == Mount \/ Retry \/ AxiosResolves \/ AxiosRejects

Spec == Init /\ [][Next]_vars

\* the page when every fetch settles: a request that does not resolve is
\* rejected in the end.  AxiosResolves and AxiosRejects are enabled in the same
\* states (inFlight > 0) and each disables both, so this is as strong as
\* WF_vars(AxiosResolves \/ AxiosRejects): no fetch stays in flight for ever.
FairSpec == Spec /\ WF_vars(AxiosRejects)

----------------------------------------------------------------------------
(* LogHistogram on its own: rendered once with the logs it is given *)

MaxHistLen == 3

\* timeUnixNano of a LogEntry handed to the histogram, in ticks; from 1000 the
\* ranges are 0, 3, 50 s, 50 s + 1, 65.006 s (with its middle), 75 s, 100 s
\* and 110 s
HistTimes ==
    { Undefined, Str(<<0>>), Str(<<1, 0, 0, 0>>), Num(1000), Str(<<1, 0, 0, 3>>),
      Num(33503), Num(51000), Str(<<5, 1, 0, 0, 1>>), Num(66006), Num(76000),
      Num(101000), Num(111000) }

LogEntryAt(time) ==
    [ timeUnixNano |-> time,
      severityNumber |-> Num(9),
      body |-> Str(""),
      attributes |-> EmptyAttributes,
      traceId |-> Undefined,
      spanId |-> Undefined,
      resourceAttributes |-> EmptyAttributes,
      scopeAttributes |-> EmptyAttributes ]

\* 100 entries, 100 ms apart, the first at start: they span 10 s
UniformEntries(start) ==
    [i \in 1..100 |-> LogEntryAt(Str(DecimalDigits(start + (i - 1) * (NanosPerSecond \div 10))))]

HistInputs ==
    { [i \in DOMAIN times |-> LogEntryAt(times[i])] : times \in TimeSeqs(HistTimes, MaxHistLen) }
    \cup {UniformEntries(0), UniformEntries(NanosPerSecond)}

HistInit ==
    /\ logs \in HistInputs
    /\ loading = FALSE
    /\ error = Null
    /\ mounted = TRUE
    /\ inFlight = 0
    /\ lastFetch = [outcome |-> "none", records |-> 0]
    /\ response = Undefined
    /\ histogramData = Undefined

\* the first render of <LogHistogram logs={logs} />
RenderLogHistogram ==
    /\ histogramData = Undefined
    /\ histogramData' = RenderedHistogram(loading, error, logs)
    /\ UNCHANGED <<logs, loading, error, mounted, inFlight, lastFetch, response>>

HistNext == RenderLogHistogram

HistSpec == HistInit /\ [][HistNext]_vars

----------------------------------------------------------------------------
(* Properties *)

Rendered == Tag(histogramData) = "array"
Buckets == Val(histogramData)

TimesOf(entries) == {ParsedTime(entries[i]) : i \in DOMAIN entries}
Least(entries) == CHOOSE t \in TimesOf(entries) : \A u \in TimesOf(entries) : t <= u
Greatest(entries) == CHOOSE t \in TimesOf(entries) : \A u \in TimesOf(entries) : t >= u

RECURSIVE SumCounts(_)
SumCounts(buckets) ==
    IF buckets = <<>> THEN 0 ELSE Head(buckets).count + SumCounts(Tail(buckets))

\* the entries whose timeUnixNano is defined and not zero
WithTime(entries) ==
    {i \in DOMAIN entries :
        /\ ~IsNullish(entries[i].timeUnixNano)
        /\ NumberOfTime(entries[i].timeUnixNano) # 0}

\* C1: whenever the endpoint delivered a payload, the normalizer returns as many
\* entries as the payload holds LogRecord objects.
C1_CountPreserved ==
    lastFetch.outcome \in {"resolved", "threw"} =>
        /\ lastFetch.outcome = "resolved"
        /\ Len(logs) = lastFetch.records

\* C2: the entries the normalizer returned are in descending order of parsed
\* time: each entry's time is at least that of the entry after it.
C2_SortedNewestFirst ==
    \A i \in 1..(Len(logs) - 1) : ParsedTime(logs[i]) >= ParsedTime(logs[i + 1])

C2_Witness ==
    /\ lastFetch.outcome = "resolved"
    /\ Len(logs) >= 3
    /\ ParsedTime(logs[1]) > ParsedTime(logs[2])
    /\ ParsedTime(logs[2]) > ParsedTime(logs[Len(logs)])
    /\ ParsedTime(logs[Len(logs)]) = 0

\* C3: the normalizer never raises on a delivered payload, whatever is absent in
\* it.
C3_NeverRaises == lastFetch.outcome # "threw"

\* C4: the bucket counts of a rendered histogram add up to the number of
\* entries whose timeUnixNano is defined and not zero.
C4_HistogramTotal ==
    Rendered => SumCounts(Buckets) = Cardinality(WithTime(logs))

\* C5: when all entries carry the same non-zero time, bucket 0 counts all of
\* them and every other bucket counts none.
C5_SameTimeInFirstBucket ==
    (Rendered /\ logs # <<>> /\ Least(logs) = Greatest(logs) /\ Least(logs) # 0) =>
        /\ Buckets # <<>>
        /\ Buckets[1].count = Len(logs)
        /\ \A i \in 2..Len(Buckets) : Buckets[i].count = 0

\* C6: in a histogram that is built, the entries with the greatest time are
\* counted in the last bucket, and every entry is counted in some bucket.
C6_MaxInLastBucket ==
    (Rendered /\ Buckets # <<>>) =>
        /\ Buckets[Len(Buckets)].count >=
              Cardinality({i \in DOMAIN logs : ParsedTime(logs[i]) = Greatest(logs)})
        /\ SumCounts(Buckets) = Len(logs)

\* C7, as stated: 100 entries spread uniformly over 10 s from time 0 give 10
\* buckets of 10 entries each.
C7_ScenarioD ==
    (Rendered /\ logs = UniformEntries(0)) =>
        /\ Len(Buckets) = 10
        /\ \A i \in 1..10 : Buckets[i].count = 10

\* C7, amended: from time 0 the 100 entries give the empty sequence, the least
\* time being 0; the same 100 entries from a time that is not 0 give 10 buckets
\* of 10 entries each.
C7_ScenarioDAmended ==
    /\ (Rendered /\ logs = UniformEntries(0)) => Buckets = <<>>
    /\ (Rendered /\ logs = UniformEntries(NanosPerSecond)) =>
          /\ Len(Buckets) = 10
          /\ \A i \in 1..10 : Buckets[i].count = 10

C7_Witness ==
    /\ Rendered
    /\ logs = UniformEntries(NanosPerSecond)
    /\ Len(Buckets) = 10

\* C8: for entries that are not empty and whose least and greatest times are
\* not 0, the number of buckets is the range in units of 5 s, rounded up, and
\* clamped to 10..20.
C8_BucketCount ==
    (Rendered /\ logs # <<>> /\ Least(logs) # 0 /\ Greatest(logs) # 0) =>
        LET n == Len(Buckets)
            range == Greatest(logs) - Least(logs)
            unit == 5 * 1000
        IN  /\ n \in 10..20
            /\ range <= 10 * unit => n = 10
            /\ range > 19 * unit => n = 20
            /\ (range > 10 * unit /\ range <= 20 * unit) =>
                  (n - 1) * unit < range /\ range <= n * unit

C8_Witness ==
    /\ Rendered
    /\ Len(Buckets) = 15
    /\ Greatest(logs) - Least(logs) = 75 * 1000

\* C9: the histogram builder returns the empty sequence exactly when there are
\* no entries or the least or the greatest parsed time is 0, and a sequence of
\* buckets otherwise.
C9_EmptyExactlyWhenDegenerate ==
    /\ histogramData # Undefined => Rendered
    /\ Rendered =>
          (Buckets = <<>> <=>
              (logs = <<>> \/ Least(logs) = 0 \/ Greatest(logs) = 0))

C9_Witness ==
    /\ Rendered
    /\ Len(logs) >= 2
    /\ Least(logs) = 0
    /\ Greatest(logs) # 0
    /\ Buckets = <<>>

\* C10: both sections show the same one of loading, error and data; error only
\* when the latest fetch failed, data only when it succeeded, and neither while
\* a fetch is in flight.
SectionState(section) == IF section \in {"empty", "table"} THEN "data" ELSE section

C10_DisplayStates ==
    /\ HistogramSection \in {"loading", "error", "data"}
    /\ SectionState(TableSection) = HistogramSection
    /\ Rendered <=> HistogramSection = "data"
    /\ HistogramSection = "error" =>
          lastFetch.outcome \in {"threw", "transport"} /\ inFlight = 0
    /\ HistogramSection = "data" =>
          lastFetch.outcome = "resolved" /\ inFlight = 0

C10_Witness ==
    /\ HistogramSection = "data"
    /\ TableSection = "empty"
    /\ lastFetch.outcome = "resolved"
    /\ lastFetch.records = 0

\* the latest fetch delivered data that fetchLogs turned into the entries of logs
Delivered == Tag(response) = "object" /\ lastFetch.outcome = "resolved"

\* the delivered payload's ResourceLogs, the ScopeLogs of the r-th of them and
\* the LogRecords of the s-th of those
SourceResourceLogs == ArrayOrEmpty(Val(response).resourceLogs)
SourceScopeLogs(r) == ArrayOrEmpty(SourceResourceLogs[r].scopeLogs)
SourceLogRecords(r, s) == ArrayOrEmpty(SourceScopeLogs(r)[s].logRecords)

\* the places <<r, s, j>> of the payload's LogRecords
Places ==
    UNION { UNION { { <<r, s, j>> : j \in DOMAIN SourceLogRecords(r, s) } :
                        s \in DOMAIN SourceScopeLogs(r) } :
                r \in DOMAIN SourceResourceLogs }

\* the traversal visits place p before place q
Precedes(p, q) ==
    \/ p[1] < q[1]
    \/ p[1] = q[1] /\ p[2] < q[2]
    \/ p[1] = q[1] /\ p[2] = q[2] /\ p[3] < q[3]

\* the place of the LogRecord an entry was built from: each record of a payload
\* has a body of its own
Origin(entry) ==
    CHOOSE p \in Places :
        Val(SourceLogRecords(p[1], p[2])[p[3]].body).stringValue = entry.body

\* the keys an attribute list sets
KeysOf(attributes) ==
    { Val(ArrayOrEmpty(attributes)[i].key) : i \in DOMAIN ArrayOrEmpty(attributes) }

\* C11: entries built from the same ScopeLogs carry equal resourceAttributes and
\* equal scopeAttributes, entries under the same ResourceLogs carry equal
\* resourceAttributes, and every entry's maps are complete: they hold every key
\* of the resource's and the scope's attribute lists.
C11_SharedAttributes ==
    Delivered =>
        \A i \in DOMAIN logs :
            LET p == Origin(logs[i])
                resource == SourceResourceLogs[p[1]].resource
                scope == SourceScopeLogs(p[1])[p[2]].scope
            IN
            /\ \A k \in KeysOf(OptionalAttributes(resource)) :
                    logs[i].resourceAttributes[k] # Undefined
            /\ \A k \in KeysOf(OptionalAttributes(scope)) :
                    logs[i].scopeAttributes[k] # Undefined
            /\ \A j \in DOMAIN logs :
                    LET q == Origin(logs[j]) IN
                    /\ p[1] = q[1] =>
                          logs[i].resourceAttributes = logs[j].resourceAttributes
                    /\ p[1] = q[1] /\ p[2] = q[2] =>
                          logs[i].scopeAttributes = logs[j].scopeAttributes

\* two entries of one scope with attributes, and a third of another resource
C11_Witness ==
    /\ Delivered
    /\ \E i, j, k \in DOMAIN logs :
          /\ i # j
          /\ Origin(logs[i])[1] = Origin(logs[j])[1]
          /\ Origin(logs[i])[2] = Origin(logs[j])[2]
          /\ Origin(logs[k])[1] # Origin(logs[i])[1]
          /\ logs[i].scopeAttributes["m"] = Num(7)
          /\ logs[i].attributes # logs[j].attributes
          /\ logs[k].resourceAttributes # logs[i].resourceAttributes

\* the scope an entry's LogRecord lies under, and the value its attribute list
\* gives a key (undefined when it lists no such key)
ScopeOf(entry) == SourceScopeLogs(Origin(entry)[1])[Origin(entry)[2]].scope

ListedValues(attributes, key) ==
    { Val(ArrayOrEmpty(attributes)[i].value).stringValue :
        i \in { h \in DOMAIN ArrayOrEmpty(attributes) :
                    ArrayOrEmpty(attributes)[h].key = Str(key) } }

\* C12: when the scope of an entry provides a non-empty name (version), the entry's
\* scopeAttributes['scope.name'] ('scope.version') is that name (version), also
\* when the scope's attribute list has that key with another value.
C12_ScopeMetadataWins ==
    Delivered =>
        \A i \in DOMAIN logs :
            LET name == OptionalField(ScopeOf(logs[i]), "name")
                version == OptionalField(ScopeOf(logs[i]), "version")
            IN
            /\ Truthy(name) => logs[i].scopeAttributes["scope.name"] = name
            /\ Truthy(version) => logs[i].scopeAttributes["scope.version"] = version

\* an entry whose scope has a name and a version and lists other values under
\* both keys
C12_Witness ==
    /\ Delivered
    /\ \E i \in DOMAIN logs :
          LET scope == ScopeOf(logs[i]) IN
          /\ ~IsNullish(scope)
          /\ ListedValues(Val(scope).attributes, "scope.name") = {Str("attr")}
          /\ ListedValues(Val(scope).attributes, "scope.version") = {Str("attr")}
          /\ Val(scope).name = Str("svc")
          /\ Val(scope).version = Str("1.0")
          /\ logs[i].scopeAttributes["scope.name"] = Str("svc")
          /\ logs[i].scopeAttributes["scope.version"] = Str("1.0")

\* C13: two entries with equal parsed timeUnixNano are in logs in the order in
\* which the traversal (ResourceLogs, then ScopeLogs, then records) visits
\* their LogRecords.
C13_StableSort ==
    Delivered =>
        \A i, j \in DOMAIN logs :
            i < j /\ ParsedTime(logs[i]) = ParsedTime(logs[j]) =>
                Precedes(Origin(logs[i]), Origin(logs[j]))

\* two entries of equal time from different ResourceLogs, after a newer entry
\* that the source has between them
C13_Witness ==
    /\ Delivered
    /\ \E i, j, k \in DOMAIN logs :
          /\ k < i /\ i < j
          /\ ParsedTime(logs[i]) = ParsedTime(logs[j])
          /\ ParsedTime(logs[k]) > ParsedTime(logs[i])
          /\ Origin(logs[i])[1] # Origin(logs[j])[1]
          /\ Precedes(Origin(logs[i]), Origin(logs[k]))
          /\ Precedes(Origin(logs[k]), Origin(logs[j]))

\* the variants of a typed value in their order of priority, and the value of
\* the first one that is populated (neither left out nor null)
VariantsByPriority == <<"stringValue", "intValue", "doubleValue", "boolValue">>

FirstPopulated(value) ==
    IF IsNullish(value) THEN Null
    ELSE LET populated == { n \in DOMAIN VariantsByPriority :
                                ~IsNullish(Val(value)[VariantsByPriority[n]]) }
         IN  IF populated = {} THEN Null
             ELSE Val(value)[VariantsByPriority[
                    CHOOSE n \in populated : \A m \in populated : n <= m]]

\* the attribute list of the LogRecord an entry was built from
ListedAttributes(entry) ==
    ArrayOrEmpty(SourceLogRecords(Origin(entry)[1], Origin(entry)[2])[Origin(entry)[3]].attributes)

\* C14: every attribute of an entry is the first populated variant of the typed
\* value listed for it, in the order string, int, double, bool, and null when
\* the value is absent or has none of the four populated.
C14_FirstPopulatedVariant ==
    Delivered =>
        \A i \in DOMAIN logs :
            \A h \in DOMAIN ListedAttributes(logs[i]) :
                LET attr == ListedAttributes(logs[i])[h] IN
                logs[i].attributes[Val(attr.key)] = FirstPopulated(attr.value)

\* an empty string wins over a populated int and bool
C14_Witness ==
    /\ Delivered
    /\ \E i \in DOMAIN logs :
          \E h \in DOMAIN ListedAttributes(logs[i]) :
              LET attr == ListedAttributes(logs[i])[h] IN
              /\ ~IsNullish(attr.value)
              /\ Val(attr.value).stringValue = Str("")
              /\ Val(attr.value).intValue = Num(7)
              /\ Val(attr.value).boolValue = Bool(TRUE)
              /\ logs[i].attributes[Val(attr.key)] = Str("")

\* the LogRecord an entry was built from
SourceOf(entry) == SourceLogRecords(Origin(entry)[1], Origin(entry)[2])[Origin(entry)[3]]

LowerHexChars == {"0", "1", "2", "3", "4", "5", "6", "7", "8", "9",
                  "a", "b", "c", "d", "e", "f"}

IsLowerHex(id) ==
    Tag(id) = "string" /\ \A n \in DOMAIN Val(id) : Val(id)[n] \in LowerHexChars

\* the number a lowercase hex digit stands for
HexValue(c) == (CHOOSE n \in DOMAIN HexDigits : HexDigits[n] = c) - 1

\* id is the hex encoding of bytes: two lowercase digits per byte, in order
EncodesBytes(id, bytes) ==
    /\ IsLowerHex(id)
    /\ Len(Val(id)) = 2 * Len(bytes)
    /\ \A n \in DOMAIN bytes :
          16 * HexValue(Val(id)[2 * n - 1]) + HexValue(Val(id)[2 * n]) = bytes[n]

\* C15, as stated: in every entry traceId and spanId are each either unset or a
\* lowercase hex string.
C15_IdsLowercaseHex ==
    Delivered =>
        \A i \in DOMAIN logs :
            /\ logs[i].traceId = Undefined \/ IsLowerHex(logs[i].traceId)
            /\ logs[i].spanId = Undefined \/ IsLowerHex(logs[i].spanId)

\* what an id of a LogRecord becomes in its entry
IdNormalized(input, output) ==
    CASE IsNullish(input) -> output = Undefined
      [] Tag(input) = "string" -> output = input
      [] Tag(input) = "bytes" -> EncodesBytes(output, Val(input))

\* C15, amended: in every entry traceId and spanId are each unset when the input
\* is absent, the input itself when it is a string (whatever its characters),
\* and the lowercase hex encoding, two digits per byte, of a byte-sequence input.
C15_IdsNormalized ==
    Delivered =>
        \A i \in DOMAIN logs :
            /\ IdNormalized(SourceOf(logs[i]).traceId, logs[i].traceId)
            /\ IdNormalized(SourceOf(logs[i]).spanId, logs[i].spanId)

\* the bytes [0xAB, 0xCD] give "abcd", and a string that is not lowercase hex is
\* passed through
C15_Witness ==
    /\ Delivered
    /\ \E i \in DOMAIN logs :
          /\ SourceOf(logs[i]).traceId = Bytes(<<171, 205>>)
          /\ logs[i].traceId = Str(<<"a", "b", "c", "d">>)
          /\ SourceOf(logs[i]).spanId = Str(<<"A", "B", "C", "D">>)
          /\ logs[i].spanId = Str(<<"A", "B", "C", "D">>)

\* C16: for input with minTime < maxTime that gives buckets, bucket i (from 0)
\* counts exactly the entries whose time t has start_i <= t < start_i + width,
\* the last bucket also those with t = maxTime, where width is
\* (maxTime - minTime) / numBuckets and start_i = minTime + i * width; so every
\* entry is counted in exactly one bucket.  (The comparisons are multiplied by
\* numBuckets to stay in the integers.)
C16_BucketIntervals ==
    Rendered /\ Buckets # <<>> /\ Least(logs) < Greatest(logs) =>
        LET n == Len(Buckets)
            minTime == Least(logs)
            range == Greatest(logs) - Least(logs)
            Within(t, i) ==
                \/ /\ minTime * n + i * range <= t * n
                   /\ t * n < minTime * n + (i + 1) * range
                \/ i = n - 1 /\ t = Greatest(logs)
        IN  /\ \A i \in 0..(n - 1) :
                  Buckets[i + 1].count =
                      Cardinality({j \in DOMAIN logs : Within(ParsedTime(logs[j]), i)})
            /\ SumCounts(Buckets) = Len(logs)

\* a step in which a loadLogs call's fetch settles, and one that starts a call
Settles == inFlight' < inFlight
Starts == inFlight' > inFlight

\* the retry control is on the page
RetryShown == HistogramSection = "error" \/ TableSection = "error"

\* C17: a loadLogs call whose fetch settles ends with loading = false: the
\* settling step leaves loading false; after a failure error is the message and
\* logs is what it was, after a success error is null and logs is the sequence
\* fetchLogs made of the delivered data.  Calls start on mount and from the retry
\* control only: the page retries nothing by itself.  Every call in flight comes
\* to such an end.
C17_LoadLogsEnds ==
    /\ [][ /\ Settles =>
                /\ loading' = FALSE
                /\ lastFetch'.outcome \in {"threw", "transport"} =>
                      error' = LoadFailedMessage /\ logs' = logs
                /\ lastFetch'.outcome = "resolved" =>
                      /\ error' = Null
                      /\ logs' = fetchLogs(Val(response')).value
                      /\ Len(logs') = lastFetch'.records
           /\ Starts => (~mounted /\ mounted') \/ RetryShown ]_vars
    /\ (inFlight > 0) ~> (inFlight = 0 /\ ~loading)

\* a call has ended in success: the entries are there and error is null
C17_Witness ==
    /\ mounted
    /\ inFlight = 0
    /\ ~loading
    /\ lastFetch.outcome = "resolved"
    /\ error = Null
    /\ Len(logs) = MaxRecords

\* C18: at most one fetch is in flight; while one is, the page is in the loading
\* state with error null, where there is no retry control, and while the retry
\* control is shown none is, so the fetch that settles is always the latest one
\* started.
C18_SingleFetchInFlight ==
    /\ inFlight <= 1
    /\ inFlight = 1 => loading /\ error = Null /\ ~RetryShown
    /\ RetryShown => inFlight = 0 /\ ~loading /\ error = LoadFailedMessage
    /\ ~mounted => inFlight = 0

\* a fetch in flight on the mounted page
C18_Witness ==
    /\ mounted
    /\ inFlight = 1
    /\ loading
    /\ error = Null
    /\ lastFetch.outcome = "pending"

====
